---- MODULE Spec2Model ----
(***************************************************************************)
(* The chat-history store of the Gemini chat client.  The repository holds *)
(* two builds of the page script: src/index.tsx (request/response, with    *)
(* delete and clear-all) and src/unnamed/part_000 (streaming, with the     *)
(* Enter-key shortcut).  Both keep the module-scope variables `history`    *)
(* and `currentViewedId` and the localStorage entry 'gemini_chat_history'. *)
(* The variable `build` fixes which script the page runs.                  *)
(*                                                                         *)
(* Text is a sequence of one-character strings.  A HistoryItem is a record *)
(* [id, prompt, response, sources, timestamp]; `undefined` sources is the  *)
(* empty sequence (the code never stores an empty sources array).          *)
(***************************************************************************)
EXTENDS Integers, Sequences, FiniteSets, Bags, TLC

VARIABLES
    build,            \* "index" (src/index.tsx) or "part000" (src/unnamed/part_000)
    app,              \* "ready": initApp ran to its end; "crashed": initApp threw
    storage,          \* localStorage entry 'gemini_chat_history'
    history,          \* let history: HistoryItem[]
    currentViewedId,  \* let currentViewedId: string | null
    historyList,      \* the buttons renderHistoryList last put in #history-list
    sendBtnDisabled,  \* sendBtn.disabled
    inflight,         \* the submit handlers suspended at an await (a bag of requests)
    now,              \* the value Date.now() returns
    setItemThrows,    \* localStorage.setItem throws (quota exhausted, disk full);
                      \* once it does, it does for the rest of the behaviour
    lastOp,           \* history variable: the handler that ran last
    writeFailed,      \* history variable: a setItem threw since the page loaded
    log,              \* history variable: prompts of the exchanges completed while pristine
    pristine          \* history variable: Store empty at load, no delete/clear since

vars == <<build, app, storage, history, currentViewedId, historyList,
          sendBtnDisabled, inflight, now, setItemThrows, lastOp, writeFailed, log,
          pristine>>

\* ---------------------------------------------------------------- bounds
MaxClock == 2
MaxHistory == 2

\* ---------------------------------------------------------------- values
Null == "null"
Undefined == <<>>
Builds == {"index", "part000"}

\* what the user may have typed in #prompt-input when a submit event fires
Typed == { <<>>, <<" ">>, <<"h", "i">>, <<" ", "b", " ">> }
\* response.text of generateContent
ApiTexts == { <<"o", "k">> }
\* what generateContentStream may yield: the chunk.text of each chunk in turn
\* (<<>>: a chunk without text)
Streams == { << <<"o">>, <<>> >> }
\* groundingMetadata.groundingChunks of a response
Groundings ==
    { << [web |-> FALSE, uri |-> "", title |-> ""],
         [web |-> TRUE, uri |-> "u", title |-> "t"] >> }

Missing == [kind |-> "missing"]
Corrupt == [kind |-> "corrupt"]

\* lastOp of a handler that neither loads, records, deletes nor clears
\* (id: the id the handler was given; viewed: Selection referenced a Record
\* (for delete, that id) when it began; threw: it ended in an exception)
Other ==
    [name |-> "other", id |-> Null, viewed |-> FALSE, threw |-> FALSE,
     abandoned |-> FALSE]

\* ---------------------------------------------------------------- text
RECURSIVE TrimStart(_)
TrimStart(s) ==
    IF s # <<>> /\ Head(s) = " " THEN TrimStart(Tail(s)) ELSE s

RECURSIVE TrimEnd(_)
TrimEnd(s) ==
    IF s # <<>> /\ s[Len(s)] = " " THEN TrimEnd(SubSeq(s, 1, Len(s) - 1)) ELSE s

\* String.prototype.trim
Trim(s) == TrimEnd(TrimStart(s))

\* ---------------------------------------------------------------- JSON
\* a serialisation written for the HistoryItem of part_000, which has no sources
StringifyItemWithoutSources(item) ==
    [id |-> item.id, prompt |-> item.prompt, response |-> item.response,
     timestamp |-> item.timestamp]

\* JSON.stringify of one HistoryItem: a property whose value is undefined is left out
StringifyItem(item) ==
    IF item.sources = Undefined
    THEN [id |-> item.id, prompt |-> item.prompt, response |-> item.response,
          timestamp |-> item.timestamp]
    ELSE [id |-> item.id, prompt |-> item.prompt, response |-> item.response,
          sources |-> item.sources, timestamp |-> item.timestamp]

\* JSON.stringify(history)
Stringify(h) ==
    [kind |-> "json", items |-> [i \in 1..Len(h) |-> StringifyItem(h[i])]]

\* one parsed object, read through the HistoryItem interface
ParseItem(enc) ==
    [id |-> enc.id, prompt |-> enc.prompt, response |-> enc.response,
     sources |-> IF "sources" \in DOMAIN enc THEN enc.sources ELSE Undefined,
     timestamp |-> enc.timestamp]

\* JSON.parse throws a SyntaxError on text that is not JSON
ParseThrows(blob) == blob.kind = "corrupt"

\* JSON.parse(localStorage.getItem('gemini_chat_history') || '[]')
LoadHistory(blob) ==
    IF blob.kind = "json"
    THEN [i \in 1..Len(blob.items) |-> ParseItem(blob.items[i])]
    ELSE <<>>

\* ---------------------------------------------------------------- projection
\* Array.prototype.sort with (a, b) => b.timestamp - a.timestamp is stable:
\* an item goes after every item whose timestamp is not smaller.
InsertDesc(sorted, item) ==
    LET keep == {k \in 1..Len(sorted) : sorted[k].timestamp >= item.timestamp}
        n == Cardinality(keep)
    IN  SubSeq(sorted, 1, n) \o <<item>> \o SubSeq(sorted, n + 1, Len(sorted))

RECURSIVE SortedHistory(_)
SortedHistory(h) ==
    IF h = <<>> THEN <<>>
    ELSE InsertDesc(SortedHistory(SubSeq(h, 1, Len(h) - 1)), h[Len(h)])

\* renderHistoryList: one button per item of the sorted copy, each with the id
\* its onclick closure holds and whether it has the class 'active'
RenderList(h, sel) ==
    LET s == SortedHistory(h)
    IN  [i \in 1..Len(s) |-> [id |-> s[i].id, active |-> (sel = s[i].id)]]

\* ids the rendered buttons carry (their onclick closures)
ListedIds == {historyList[i].id : i \in 1..Len(historyList)}

HasId(h, id) == \E i \in 1..Len(h) : h[i].id = id

\* history.filter(h => h.id !== id)
FilterOut(h, id) == SelectSeq(h, LAMBDA r : r.id # id)

\* Date.now().toString() read back as a number
IdValue(id) == CHOOSE n \in 0..MaxClock : ToString(n) = id

\* ---------------------------------------------------------------- initApp
Init ==
    /\ build \in Builds
    /\ storage \in {Missing, Corrupt}
    /\ app = IF ParseThrows(storage) THEN "crashed" ELSE "ready"
    /\ history = LoadHistory(storage)
    /\ currentViewedId = Null
    /\ historyList = RenderList(history, Null)
    /\ sendBtnDisabled = FALSE
    /\ inflight = EmptyBag
    /\ now = 1
    /\ setItemThrows \in BOOLEAN
    /\ lastOp = [name |-> "init", id |-> Null, viewed |-> FALSE,
                 threw |-> ParseThrows(storage), abandoned |-> FALSE]
    /\ writeFailed = FALSE
    /\ log = <<>>
    /\ pristine = (LoadHistory(storage) = <<>>)

\* ---------------------------------------------------------------- helpers of the handlers
\* a push that takes an id already in the Store for the same Record
PushUnlessKnownId(h, item) == IF HasId(h, item.id) THEN h ELSE Append(h, item)

\* history.push(newItem)
Push(h, item) == Append(h, item)

\* the sources kept of a response: chunks with a `web` member, in order
ExtractSources(chunks) ==
    LET web == SelectSeq(chunks, LAMBDA c : c.web)
    IN  [i \in 1..Len(web) |-> [uri |-> web[i].uri, title |-> web[i].title]]

\* newItem: id from the first Date.now(), timestamp from the second
NewItem(prompt, response, sources, t1, t2) ==
    [id |-> ToString(t1), prompt |-> prompt, response |-> response,
     sources |-> IF Len(sources) > 0 THEN sources ELSE Undefined,
     timestamp |-> t2]

\* every suspended handler's request is marked as abandoned by the user
Abandon(reqs) ==
    LET mark(r) == [r EXCEPT !.abandoned = TRUE]
        marked == {mark(r) : r \in BagToSet(reqs)}
    IN  [m \in marked |->
            CopiesIn(m, reqs) + CopiesIn([m EXCEPT !.abandoned = FALSE], reqs)]

\* the part of a submit handler before its await
BeginSubmit(text) ==
    LET prompt == Trim(text)
    IN  /\ app = "ready"
        /\ Len(history) + BagCardinality(inflight) < MaxHistory
        /\ lastOp' = Other
        /\ IF prompt = <<>>
           THEN UNCHANGED <<currentViewedId, sendBtnDisabled, inflight>>
           ELSE /\ currentViewedId' = Null
                /\ sendBtnDisabled' = TRUE
                /\ inflight' = inflight (+) SetToBag({
                       [prompt |-> prompt, abandoned |-> FALSE,
                        phase |-> "awaiting", stream |-> <<>>, fullText |-> <<>>]})
        /\ UNCHANGED <<build, app, storage, history, historyList, now, setItemThrows,
                       writeFailed, log, pristine>>

\* the part of a submit handler from `const newItem` on, with its catch and finally
Record(req, response, sources, tick) ==
    LET ok == ~setItemThrows
        t1 == now
        t2 == IF tick THEN now + 1 ELSE now
        item == NewItem(req.prompt, response, sources, t1, t2)
    IN  /\ tick => now < MaxClock
        /\ history' = Push(history, item)
        /\ storage' = IF ok THEN Stringify(history') ELSE storage
        /\ historyList' =
              IF ok THEN RenderList(history', currentViewedId) ELSE historyList
        /\ writeFailed' = (writeFailed \/ ~ok)
        /\ sendBtnDisabled' = FALSE
        /\ inflight' = inflight (-) SetToBag({req})
        /\ now' = t2
        /\ log' = IF pristine THEN Append(log, req.prompt) ELSE log
        /\ lastOp' = [name |-> "complete", id |-> item.id, viewed |-> FALSE,
                      threw |-> ~ok, abandoned |-> req.abandoned]
        /\ UNCHANGED <<build, app, currentViewedId, setItemThrows, pristine>>

\* ---------------------------------------------------------------- src/index.tsx
\* elements.form.onsubmit, reached through the send button
onsubmit(text) ==
    /\ build = "index"
    /\ ~sendBtnDisabled
    /\ BeginSubmit(text)

\* generateContent resolved: the rest of onsubmit's try block
onsubmitResolved(req, text, chunks, tick) ==
    /\ build = "index"
    /\ BagIn(req, inflight)
    /\ Record(req, text, ExtractSources(chunks), tick)

deleteHistoryItem(id) ==
    /\ build = "index"
    /\ app = "ready"
    /\ id \in ListedIds
    /\ history' = FilterOut(history, id)
    /\ storage' = IF ~setItemThrows THEN Stringify(history') ELSE storage
    /\ currentViewedId' =
          IF ~setItemThrows /\ currentViewedId = id THEN Null ELSE currentViewedId
    /\ historyList' =
          IF ~setItemThrows THEN RenderList(history', currentViewedId')
          ELSE historyList
    /\ writeFailed' = (writeFailed \/ setItemThrows)
    /\ pristine' = FALSE
    /\ log' = <<>>
    /\ lastOp' = [name |-> "delete", id |-> id, viewed |-> (currentViewedId = id),
                  threw |-> setItemThrows, abandoned |-> FALSE]
    /\ UNCHANGED <<build, app, sendBtnDisabled, inflight, now, setItemThrows>>

\* clearAllHistory without its call of resetUI
clearAllHistoryWithoutReset(confirmed) ==
    /\ build = "index"
    /\ app = "ready"
    /\ IF confirmed
       THEN /\ history' = <<>>
            /\ storage' = Missing
            /\ historyList' = RenderList(history', currentViewedId)
            /\ pristine' = FALSE
            /\ log' = <<>>
            /\ lastOp' = [Other EXCEPT !.name = "clearAll",
                                     !.viewed = (currentViewedId # Null)]
            /\ UNCHANGED currentViewedId
       ELSE /\ lastOp' = [Other EXCEPT !.name = "clearAllDeclined"]
            /\ UNCHANGED <<history, storage, currentViewedId, historyList,
                           pristine, log>>
    /\ UNCHANGED <<build, app, sendBtnDisabled, inflight, now, setItemThrows,
                   writeFailed>>

clearAllHistory(confirmed) ==
    /\ build = "index"
    /\ app = "ready"
    /\ IF confirmed
       THEN /\ history' = <<>>
            /\ storage' = Missing
            /\ currentViewedId' = Null
            /\ historyList' = RenderList(history', currentViewedId')
            /\ pristine' = FALSE
            /\ log' = <<>>
            /\ lastOp' = [Other EXCEPT !.name = "clearAll",
                                     !.viewed = (currentViewedId # Null)]
       ELSE /\ lastOp' = [Other EXCEPT !.name = "clearAllDeclined"]
            /\ UNCHANGED <<history, storage, currentViewedId, historyList,
                           pristine, log>>
    /\ UNCHANGED <<build, app, sendBtnDisabled, inflight, now, setItemThrows, writeFailed>>

\* newChatBtn.onclick = resetUI
resetUI ==
    /\ build = "index"
    /\ app = "ready"
    /\ currentViewedId' = Null
    /\ inflight' = Abandon(inflight)
    /\ lastOp' = Other
    /\ UNCHANGED <<build, app, storage, history, historyList, sendBtnDisabled,
                   now, setItemThrows, writeFailed, log, pristine>>

\* ---------------------------------------------------------------- src/unnamed/part_000
\* handleSubmit, reached through the send button
handleSubmit(text) ==
    /\ build = "part000"
    /\ ~sendBtnDisabled
    /\ BeginSubmit(text)

\* keydown Enter without Shift: promptForm.requestSubmit() with no submitter
keydownEnter(text) ==
    /\ build = "part000"
    /\ BeginSubmit(text)

\* generateContentStream resolved
streamOpened(req, stream) ==
    /\ build = "part000"
    /\ BagIn(req, inflight)
    /\ req.phase = "awaiting"
    /\ inflight' = (inflight (-) SetToBag({req})) (+)
                    SetToBag({[req EXCEPT !.phase = "streaming", !.stream = stream]})
    /\ lastOp' = Other
    /\ UNCHANGED <<build, app, storage, history, currentViewedId, historyList,
                   sendBtnDisabled, now, setItemThrows, writeFailed, log, pristine>>

\* one turn of the for-await loop
streamChunk(req) ==
    /\ build = "part000"
    /\ BagIn(req, inflight)
    /\ req.phase = "streaming"
    /\ req.stream # <<>>
    /\ inflight' = (inflight (-) SetToBag({req})) (+)
                    SetToBag({[req EXCEPT !.fullText = @ \o Head(req.stream),
                                          !.stream = Tail(@)]})
    /\ lastOp' = Other
    /\ UNCHANGED <<build, app, storage, history, currentViewedId, historyList,
                   sendBtnDisabled, now, setItemThrows, writeFailed, log, pristine>>

\* the stream ended: saveToHistory(prompt, fullText), inside handleSubmit's try
saveToHistory(req, tick) ==
    /\ build = "part000"
    /\ BagIn(req, inflight)
    /\ req.phase = "streaming"
    /\ req.stream = <<>>
    /\ Record(req, req.fullText, Undefined, tick)

newChatBtnOnclick ==
    /\ build = "part000"
    /\ app = "ready"
    /\ currentViewedId' = Null
    /\ historyList' = RenderList(history, Null)
    /\ inflight' = Abandon(inflight)
    /\ lastOp' = Other
    /\ UNCHANGED <<build, app, storage, history, sendBtnDisabled, now, setItemThrows,
                   writeFailed, log, pristine>>

\* ---------------------------------------------------------------- both scripts
viewHistoryItem(id) ==
    /\ app = "ready"
    /\ id \in ListedIds
    /\ lastOp' = Other
    /\ IF HasId(history, id)
       THEN /\ currentViewedId' = id
            /\ historyList' = RenderList(history, id)
       ELSE UNCHANGED <<currentViewedId, historyList>>
    /\ UNCHANGED <<build, app, storage, history, sendBtnDisabled, inflight, now, setItemThrows,
                   writeFailed, log, pristine>>

\* the awaited call (or the stream) rejected: catch, then finally
requestFailed(req) ==
    /\ BagIn(req, inflight)
    /\ sendBtnDisabled' = FALSE
    /\ inflight' = inflight (-) SetToBag({req})
    /\ lastOp' = Other
    /\ UNCHANGED <<build, app, storage, history, currentViewedId, historyList,
                   now, setItemThrows, writeFailed, log, pristine>>

\* the page is loaded again: initApp runs on what localStorage holds
Reload ==
    /\ app' = IF ParseThrows(storage) THEN "crashed" ELSE "ready"
    /\ history' = LoadHistory(storage)
    /\ currentViewedId' = Null
    /\ historyList' = RenderList(history', Null)
    /\ sendBtnDisabled' = FALSE
    /\ inflight' = EmptyBag
    /\ lastOp' = [name |-> "init", id |-> Null, viewed |-> FALSE,
                  threw |-> ParseThrows(storage), abandoned |-> FALSE]
    /\ writeFailed' = FALSE
    /\ log' = <<>>
    /\ pristine' = (history' = <<>>)
    /\ UNCHANGED <<build, storage, now, setItemThrows>>

\* the origin's storage fills up: from now on setItem throws
StorageFills ==
    /\ ~setItemThrows
    /\ setItemThrows' = TRUE
    /\ UNCHANGED <<build, app, storage, history, currentViewedId, historyList,
                   sendBtnDisabled, inflight, now, lastOp, writeFailed, log,
                   pristine>>

\* a millisecond passes
Tick ==
    /\ now < MaxClock
    /\ now' = now + 1
    /\ lastOp' = Other
    /\ UNCHANGED <<build, app, storage, history, currentViewedId, historyList,
                   sendBtnDisabled, inflight, setItemThrows, writeFailed, log,
                   pristine>>

Next ==
    \/ \E text \in Typed : onsubmit(text)
    \/ \E req \in BagToSet(inflight), text \in ApiTexts, chunks \in Groundings,
          tick \in BOOLEAN : onsubmitResolved(req, text, chunks, tick)
    \/ \E id \in ListedIds : deleteHistoryItem(id)
    \/ \E confirmed \in BOOLEAN : clearAllHistory(confirmed)
    \/ resetUI
    \/ \E text \in Typed : handleSubmit(text)
    \/ \E text \in Typed : keydownEnter(text)
    \/ \E req \in BagToSet(inflight), stream \in Streams : streamOpened(req, stream)
    \/ \E req \in BagToSet(inflight) : streamChunk(req)
    \/ \E req \in BagToSet(inflight), tick \in BOOLEAN : saveToHistory(req, tick)
    \/ newChatBtnOnclick
    \/ \E id \in ListedIds : viewHistoryItem(id)
    \/ \E req \in BagToSet(inflight) : requestFailed(req)
    \/ Reload
    \/ StorageFills
    \/ Tick

Spec == Init /\ [][Next]_vars

\* ================================================================ claims

\* C1: whenever Selection is Viewing(x), a Record with id x is in the in-memory
\* Store.
C1_SelectionNeverDangles ==
    currentViewedId # Null => HasId(history, currentViewedId)

\* C2: the ids of the Records in the Store are pairwise distinct.
C2_IdsUnique ==
    \A i, j \in 1..Len(history) : i # j => history[i].id # history[j].id

\* C3: when the response of a request the user abandoned with "new chat" arrives,
\* no Record is appended to the Store and nothing is written to storage.
C3_AbandonedNeverRecorded ==
    [][(lastOp'.name = "complete" /\ lastOp'.abandoned)
          => (history' = history /\ storage' = storage)]_vars

\* C4: at most one submit handler is suspended at its await at any time.
C4_AtMostOneInFlight == BagCardinality(inflight) <= 1

\* C5: a delete whose storage write threw has still removed the Record and, if
\* Selection referenced it, reset Selection to Idle; a recording whose storage
\* write threw has still put the new Record in the in-memory Store.
C5_WriteFailureKeepsEffect ==
    /\ (lastOp.name = "delete" /\ lastOp.threw) =>
          /\ ~HasId(history, lastOp.id)
          /\ lastOp.viewed => currentViewedId = Null
    /\ (lastOp.name = "complete" /\ lastOp.threw) => HasId(history, lastOp.id)

\* C6: a load from a missing or corrupt blob completes with an empty Store,
\* Selection Idle and the handlers installed.
C6_LoadNeverFails ==
    (lastOp.name = "init" /\ storage \in {Missing, Corrupt}) =>
        (app = "ready" /\ history = <<>> /\ currentViewedId = Null)

\* C7: from an empty Store and with no delete or clear, the Store holds exactly
\* one Record per completed exchange, in completion order, each with the prompt
\* its own submission captured.
C7_NoExchangeDropped ==
    pristine =>
        /\ Len(history) = Len(log)
        /\ \A i \in 1..Len(log) : history[i].prompt = log[i]

\* two exchanges with different prompts completed within the same millisecond
C7_Witness ==
    /\ pristine
    /\ Len(log) >= 2
    /\ log[1] # log[2]
    /\ history[1].id = history[2].id

\* C8: the projected list is ordered by timestamp descending, and Records with
\* equal timestamps by id descending.
C8_TiesBrokenByIdDescending ==
    LET s == SortedHistory(history)
    IN  \A i, j \in 1..Len(s) :
            i < j => \/ s[i].timestamp > s[j].timestamp
                     \/ /\ s[i].timestamp = s[j].timestamp
                        /\ IdValue(s[i].id) >= IdValue(s[j].id)

\* C9: a confirmed clearAll leaves the in-memory Store empty, the persisted
\* entry absent and Selection Idle.
C9_ClearAllEmpties ==
    lastOp.name = "clearAll" =>
        (history = <<>> /\ storage = Missing /\ currentViewedId = Null)

\* a confirmed clearAll ran while a Record was viewed and a request was in flight
C9_Witness ==
    /\ lastOp.name = "clearAll"
    /\ lastOp.viewed
    /\ BagCardinality(inflight) > 0

\* C10: while the page runs and no storage write has failed, the persisted blob
\* (absent read as the empty list) decodes to the in-memory history.
C10_PersistedInSync ==
    (app = "ready" /\ ~writeFailed) => LoadHistory(storage) = history

\* a delete was persisted and left a Record with sources in both copies
C10_Witness ==
    /\ app = "ready"
    /\ ~writeFailed
    /\ lastOp.name = "delete"
    /\ history # <<>>
    /\ history[1].sources # Undefined
    /\ storage # Missing

====
